---- MODULE Spec2Model ----
(***************************************************************************)
(* Model of tg_console/image_converter.py: the ImageToAscii converter.     *)
(*                                                                         *)
(* Text is modelled as a sequence of one-character strings, so that line   *)
(* lengths, the characters of a result and substrings can be stated.       *)
(* An encoded byte buffer is modelled by what the decoding library (PIL)   *)
(* makes of it: the exception Image.open or Image.convert raises for it,   *)
(* or the size and luminance content of the decoded picture.               *)
(***************************************************************************)
EXTENDS Integers, Sequences, FiniteSets, TLC

(* ------------------------------ bounds --------------------------------- *)
\* largest side of the enumerated source pictures
MaxDim == 3
\* largest of the enumerated small converter widths
MaxWidth == 3

(* ------------------------- program constants --------------------------- *)
\* ImageToAscii.ASCII_CHARS = '@%#*+=-:. '
ASCII_CHARS == <<"@", "%", "#", "*", "+", "=", "-", ":", ".", " ">>
\* largest sample of a mode 'L' picture, and the divisor of _pixel_to_ascii
MaxLum == 255

FormatNotSupported == <<"[", "I", "m", "a", "g", "e", " ", "f", "o", "r", "m", "a", "t", " ", "n", "o", "t", " ", "s", "u", "p", "p", "o", "r", "t", "e", "d", "]">>
ErrorPrefix == <<"[", "E", "r", "r", "o", "r", " ", "c", "o", "n", "v", "e", "r", "t", "i", "n", "g", " ", "i", "m", "a", "g", "e", ":", " ">>
ErrorSuffix == <<"]">>

\* str(e) of the exceptions the decoding library and the arithmetic raise
MsgUnidentified == <<"c", "a", "n", "n", "o", "t", " ", "i", "d", "e", "n", "t", "i", "f", "y", " ", "i", "m", "a", "g", "e", " ", "f", "i", "l", "e">>
MsgBomb == <<"I", "m", "a", "g", "e", " ", "s", "i", "z", "e", " ", "(", "2", "0", "0", "0", "0", "0", "0", "0", "0", " ", "p", "i", "x", "e", "l", "s", ")", " ", "e", "x", "c", "e", "e", "d", "s", " ", "l", "i", "m", "i", "t", " ", "o", "f", " ", "1", "7", "8", "9", "5", "6", "9", "7", "0", " ", "p", "i", "x", "e", "l", "s", ",", " ", "c", "o", "u", "l", "d", " ", "b", "e", " ", "d", "e", "c", "o", "m", "p", "r", "e", "s", "s", "i", "o", "n", " ", "b", "o", "m", "b", " ", "D", "O", "S", " ", "a", "t", "t", "a", "c", "k", ".">>
MsgTruncated == <<"i", "m", "a", "g", "e", " ", "f", "i", "l", "e", " ", "i", "s", " ", "t", "r", "u", "n", "c", "a", "t", "e", "d", " ", "(", "5", " ", "b", "y", "t", "e", "s", " ", "n", "o", "t", " ", "p", "r", "o", "c", "e", "s", "s", "e", "d", ")">>
MsgDivisionByZero == <<"d", "i", "v", "i", "s", "i", "o", "n", " ", "b", "y", " ", "z", "e", "r", "o">>
MsgIndex == <<"s", "t", "r", "i", "n", "g", " ", "i", "n", "d", "e", "x", " ", "o", "u", "t", " ", "o", "f", " ", "r", "a", "n", "g", "e">>
MsgResize == <<"h", "e", "i", "g", "h", "t", " ", "a", "n", "d", " ", "w", "i", "d", "t", "h", " ", "m", "u", "s", "t", " ", "b", "e", " ", ">", " ", "0">>

(* ------------------------------ inputs --------------------------------- *)
\* widths a converter is constructed with
Widths == (0..MaxWidth) \cup {10}

\* (orig_width, orig_height) of the decoded pictures
Sizes == ((0..MaxDim) \X (0..MaxDim)) \cup {<<100, 50>>, <<1000, 1>>}

\* luminance content of the decoded pictures
Patterns == {"black", "white", "gray", "checker", "steps"}

\* byte buffers, by what the decoder makes of them:
\*   empty, garbage : not recognised as a picture by Image.open
\*   bomb           : recognised, rejected by Image.open (DecompressionBombError)
\*   truncated      : opened lazily, the pixel data fails to load in convert('L')
\*   image          : decodes to an ow x oh picture with content pat
BadTags == {"empty", "garbage", "bomb", "truncated"}
Buffers ==
    {[tag |-> t, ow |-> 0, oh |-> 0, pat |-> "black"] : t \in BadTags}
    \cup {[tag |-> "image", ow |-> s[1], oh |-> s[2], pat |-> p] : s \in Sizes, p \in Patterns}
NoData == [tag |-> "none", ow |-> 0, oh |-> 0, pat |-> "black"]

(* ------------------------------- state --------------------------------- *)
VARIABLES
    width,        \* self.width of the converter
    image_data,   \* argument of the last convert_image_to_ascii call
    reached,      \* last statement of the try body the call got to
    orig_size,    \* image.size read at line 39
    new_height,   \* local new_height
    pixels,       \* local pixels
    ascii_art,    \* local ascii_art (list of rows)
    handler,      \* how the call left the try statement
    result,       \* the returned string
    raised,       \* class of the exception leaving the call, or "None"
    pixel_value,  \* argument of the last direct _pixel_to_ascii call
    pixel_index,  \* its local index
    pixel_char,   \* the character it returned ("": none)
    pixel_raised, \* class of the exception it raised, or "None"
    earlier,      \* an earlier call on the same converter: argument and result
    frames,       \* the frame of each concurrent invocation on the converter
    config_file,  \* the ascii_art_width entry of the persisted config.json
    config,       \* the ascii_art_width entry of Config.config once loaded
    server,       \* the chat as the service holds it: history, newest first
    chat,         \* the fields of the ChatView
    tasks,        \* the asyncio tasks the ChatView has created
    posted,       \* per chat, the number of new-message events delivered
    current_messages, \* TelegramHandler.current_messages
    panel,        \* the fields of the MessagePanel
    refreshes     \* the runs of MessagePanel.refresh that have been started

vars == <<width, image_data, reached, orig_size, new_height, pixels, ascii_art,
          handler, result, raised,
          pixel_value, pixel_index, pixel_char, pixel_raised,
          earlier, frames, config_file, config, server, chat, tasks,
          posted, current_messages, panel, refreshes>>

\* the handler of new messages and the dialog panel
panelVars == <<posted, current_messages, panel, refreshes>>

\* the application around the converter: configuration, service and chat view
appVars == <<config_file, config, server, chat, tasks>>

pixelVars == <<pixel_value, pixel_index, pixel_char, pixel_raised>>

callVars == <<image_data, reached, orig_size, new_height, pixels, ascii_art,
              handler, result, raised>>

\* what the actions of the converter leave alone besides pixelVars
convOthers == <<earlier, frames, config_file, config, server, chat, tasks,
                posted, current_messages, panel, refreshes>>

(* ------------------------- exception classes --------------------------- *)
\* base class of each exception class that can arise in the try body
Bases == [UnidentifiedImageError |-> "OSError",
          DecompressionBombError |-> "Exception",
          OSError |-> "Exception",
          ValueError |-> "Exception",
          ZeroDivisionError |-> "ArithmeticError",
          IndexError |-> "LookupError",
          ConnectionError |-> "OSError",
          RPCError |-> "Exception",
          LookupError |-> "Exception",
          ArithmeticError |-> "Exception",
          Exception |-> "BaseException",
          BaseException |-> "object"]

RECURSIVE IsSubclass(_, _)
IsSubclass(cls, base) ==
    IF cls = base THEN TRUE
    ELSE IF cls \notin DOMAIN Bases THEN FALSE
    ELSE IsSubclass(Bases[cls], base)

(* ----------------------------- arithmetic ------------------------------ *)
\* int(n / d) of Python for d > 0: the quotient truncated toward zero
Trunc(n, d) == IF n >= 0 THEN n \div d ELSE -((-n) \div d)

\* round(n / d) of Python for d > 0: nearest integer, ties to the even one
Round(n, d) ==
    LET q == n \div d
        r == n - q * d
    IN  IF 2 * r < d THEN q
        ELSE IF 2 * r > d THEN q + 1
        ELSE IF q % 2 = 0 THEN q ELSE q + 1

Min(a, b) == IF a < b THEN a ELSE b

(* ------------------------- _pixel_to_ascii ----------------------------- *)
\* variant: scales by the ramp length instead of its last index
PixelIndexByLength(pixel) == Trunc(pixel * Len(ASCII_CHARS), MaxLum)

\* variant: divides by the number of luminance levels instead of the largest
PixelIndexBy256(pixel) == Trunc(pixel * (Len(ASCII_CHARS) - 1), MaxLum + 1)

\* index = int(pixel_value * (len(self.ASCII_CHARS) - 1) / 255)
PixelIndex(pixel) == Trunc(pixel * (Len(ASCII_CHARS) - 1), MaxLum)

\* return self.ASCII_CHARS[index]; an index outside the ramp is an IndexError
\* (Python indexes from 0 and accepts -len..-1 from the end)
IndexInRange(index) == index >= -Len(ASCII_CHARS) /\ index < Len(ASCII_CHARS)
CharAt(index) ==
    IF index >= 0 THEN ASCII_CHARS[index + 1]
    ELSE ASCII_CHARS[Len(ASCII_CHARS) + index + 1]
PixelToAscii(pixel) == CharAt(PixelIndex(pixel))

(* ---------------------- the decoding library --------------------------- *)
\* outcome of a library call that did not raise
NoExc == [exc |-> "None", msg |-> <<>>]

\* Image.open(io.BytesIO(image_data)): raises UnidentifiedImageError when no
\* plugin recognises the buffer (the empty buffer included); other errors of
\* a recognised file surface as their own exception class
ImageOpen(data) ==
    IF data.tag \in {"empty", "garbage"}
        THEN [exc |-> "UnidentifiedImageError", msg |-> MsgUnidentified]
    ELSE IF data.tag = "bomb"
        THEN [exc |-> "DecompressionBombError", msg |-> MsgBomb]
    ELSE NoExc

\* image.convert('L'): loads the pixel data; a truncated file raises OSError
ImageConvertL(data) ==
    IF data.tag = "truncated"
        THEN [exc |-> "OSError", msg |-> MsgTruncated]
    ELSE NoExc

\* luminance (mode 'L', 0..255) of the decoded picture at column x, row y
SrcLum(pat, x, y) ==
    CASE pat = "black" -> 0
      [] pat = "white" -> MaxLum
      [] pat = "gray" -> 128
      [] pat = "checker" -> IF (x + y) % 2 = 0 THEN 0 ELSE MaxLum
      [] pat = "steps" -> (28 + x + 29 * y) % (MaxLum + 1)

\* image.resize((w, h)) raises ValueError unless both sides are at least 1
\* (every PIL that provides UnidentifiedImageError rejects an empty target)
ResizeRaises(w, h) == w < 1 \/ h < 1

\* list(image.resize((w, h)).getdata()): w * h samples in row-major order,
\* each the source sample at the centre of its cell; a picture of one
\* luminance keeps it under every resampling filter
ImageResize(data, w, h) ==
    [i \in 1..(w * h) |->
        LET x == (i - 1) % w
            y == (i - 1) \div w
        IN  SrcLum(data.pat,
                   ((2 * x + 1) * data.ow) \div (2 * w),
                   ((2 * y + 1) * data.oh) \div (2 * h))]

(* ---------------------- convert_image_to_ascii ------------------------- *)
\* variant: rounds to the nearest integer instead of truncating
NewHeightRounded(w, orig_width, orig_height) == Round(w * orig_height, 2 * orig_width)

\* variant: leaves out the 0.5 correction of the character cell
NewHeightNoHalf(w, orig_width, orig_height) == Trunc(w * orig_height, orig_width)

\* variant: the height of the previous call is kept and reused
NewHeightKept(w, orig_width, orig_height) ==
    IF new_height > 0 THEN new_height ELSE Trunc(w * orig_height, 2 * orig_width)

\* new_height = int(self.width * aspect_ratio * 0.5) with
\* aspect_ratio = orig_height / orig_width, for orig_width > 0
NewHeight(w, orig_width, orig_height) == Trunc(w * orig_height, 2 * orig_width)

\* variant: the slice of a row stops one sample early
RowsShort(pix, w) ==
    LET n == Len(pix)
        count == Cardinality({i \in 0..(n - 1) : i % w = 0})
    IN  [k \in 1..count |-> SubSeq(pix, (k - 1) * w + 1, Min(k * w - 1, n))]

\* for i in range(0, len(pixels), self.width): row = pixels[i:i + self.width]
RowStarts(n, w) == {i \in 0..(n - 1) : i % w = 0}
Rows(pix, w) ==
    LET n == Len(pix)
        count == Cardinality(RowStarts(n, w))
    IN  [k \in 1..count |-> SubSeq(pix, (k - 1) * w + 1, Min(k * w, n))]

\* ''.join([self._pixel_to_ascii(pixel) for pixel in row])
AsciiRow(row) == [j \in 1..Len(row) |-> PixelToAscii(row[j])]

\* '\n'.join(ascii_art)
RECURSIVE Join(_)
Join(rows) ==
    IF Len(rows) = 0 THEN <<>>
    ELSE IF Len(rows) = 1 THEN rows[1]
    ELSE rows[1] \o <<"\n">> \o Join(Tail(rows))

\* the locals of a call that has not got anywhere yet
NoLocals == [exc |-> "None", msg |-> <<>>, reached |-> "open",
             orig_size |-> <<0, 0>>, new_height |-> 0,
             pixels |-> <<>>, ascii_art |-> <<>>, text |-> <<>>]

\* the try body, lines 33-52: the statement it ends at, the locals assigned
\* by then, and the exception it ends with ("None": it reached the return)
TryBody(w, data) ==
    LET opened == ImageOpen(data)
        loaded == ImageConvertL(data)
        size == <<data.ow, data.oh>>
        h == NewHeight(w, data.ow, data.oh)
        pix == ImageResize(data, w, h)
        rows == Rows(pix, w)
        art == [k \in 1..Len(rows) |-> AsciiRow(rows[k])]
    IN  IF opened.exc # "None"
            THEN [NoLocals EXCEPT !.exc = opened.exc, !.msg = opened.msg]
        ELSE IF loaded.exc # "None"
            THEN [NoLocals EXCEPT !.exc = loaded.exc, !.msg = loaded.msg,
                                  !.reached = "convert"]
        ELSE IF data.ow = 0
            THEN [NoLocals EXCEPT !.exc = "ZeroDivisionError",
                                  !.msg = MsgDivisionByZero,
                                  !.reached = "aspect_ratio", !.orig_size = size]
        ELSE IF ResizeRaises(w, h)
            THEN [NoLocals EXCEPT !.exc = "ValueError", !.msg = MsgResize,
                                  !.reached = "resize", !.orig_size = size,
                                  !.new_height = h]
        ELSE IF \E i \in 1..Len(pix) : ~IndexInRange(PixelIndex(pix[i]))
            THEN [NoLocals EXCEPT !.exc = "IndexError", !.msg = MsgIndex,
                                  !.reached = "rows", !.orig_size = size,
                                  !.new_height = h, !.pixels = pix]
        ELSE [NoLocals EXCEPT !.reached = "return", !.orig_size = size,
                              !.new_height = h, !.pixels = pix,
                              !.ascii_art = art, !.text = Join(art)]

\* variant: the catch-all clause takes OSError only
HandlerOSErrorOnly(exc) ==
    IF exc = "None" THEN "return"
    ELSE IF IsSubclass(exc, "UnidentifiedImageError") THEN "UnidentifiedImageError"
    ELSE IF IsSubclass(exc, "OSError") THEN "Exception"
    ELSE "propagate"

\* variant: the catch-all clause comes first
HandlerCatchAllFirst(exc) ==
    IF exc = "None" THEN "return"
    ELSE IF IsSubclass(exc, "Exception") THEN "Exception"
    ELSE IF IsSubclass(exc, "UnidentifiedImageError") THEN "UnidentifiedImageError"
    ELSE "propagate"

\* the except clauses, in source order: which one takes an exception class
Handler(exc) ==
    IF exc = "None" THEN "return"
    ELSE IF IsSubclass(exc, "UnidentifiedImageError") THEN "UnidentifiedImageError"
    ELSE IF IsSubclass(exc, "Exception") THEN "Exception"
    ELSE "propagate"

\* the string each exit of the try statement returns
Returned(body) ==
    CASE Handler(body.exc) = "return" -> body.text
      [] Handler(body.exc) = "UnidentifiedImageError" -> FormatNotSupported
      [] Handler(body.exc) = "Exception" -> ErrorPrefix \o body.msg \o ErrorSuffix
      [] Handler(body.exc) = "propagate" -> <<>>

(* ----------------------------- config.py -------------------------------- *)
\* Config.DEFAULT_CONFIG["ascii_art_width"], and the default of the property
DefaultAsciiArtWidth == 40
\* the default of ImageToAscii.__init__(self, width=40)
ConverterDefaultWidth == 40

\* a config.json: whether the file exists, and its ascii_art_width entry
\* ({}: the key is absent)
NoConfigFile == [exists |-> FALSE, ascii_art_width |-> {}]
ConfiguredWidths == {20, 40, 80}
ConfigFiles ==
    {NoConfigFile}
    \cup {[exists |-> TRUE, ascii_art_width |-> e] : e \in {{}} \cup {{c} : c \in ConfiguredWidths}}

\* Config.config before Config.__init__ has run
NotLoaded == [loaded |-> FALSE, ascii_art_width |-> {}]

\* Config._load_config: the entry of the file, a missing key filled in from
\* DEFAULT_CONFIG; without a file, DEFAULT_CONFIG
LoadConfig(file) ==
    IF file.exists
        THEN IF file.ascii_art_width = {} THEN {DefaultAsciiArtWidth}
             ELSE file.ascii_art_width
    ELSE {DefaultAsciiArtWidth}

\* Config.ascii_art_width: self.config.get("ascii_art_width", 40)
AsciiArtWidth(cfg) ==
    IF cfg.ascii_art_width = {} THEN DefaultAsciiArtWidth
    ELSE CHOOSE c \in cfg.ascii_art_width : TRUE

(* ------------------------ the chat on the service ----------------------- *)
\* bound on the length of a chat history that carries media
MaxHistory == 2
\* bound of the model standing for limit=50 of get_chat_messages
PageLimit == 2

\* a message, by what rendering it meets:
\*   text            : text, the sender resolves
\*   unknown_sender  : text, client.get_entity(from_id) raises
\*   media_raises    : download_media raises
\*   media_none      : download_media returns None
\*   media_garbage   : the bytes are no picture
\*   media_truncated : the bytes are a truncated picture
\*   media_photo     : the bytes are a 100x50 picture
\*   media_wide      : the bytes are a 1000x1 picture
TextKinds == {"text", "unknown_sender"}
MediaKinds == {"media_raises", "media_none", "media_garbage", "media_truncated",
               "media_photo", "media_wide"}
MessageKinds == TextKinds \cup MediaKinds
NoMessage == [id |-> 0, kind |-> "none"]

\* GetHistoryRequest(limit, offset_id): the newest limit messages, of those
\* older than offset_id when it is not 0
RECURSIVE SelectOlder(_, _)
SelectOlder(history, offset_id) ==
    IF history = <<>> THEN <<>>
    ELSE IF offset_id = 0 \/ Head(history).id < offset_id
        THEN <<Head(history)>> \o SelectOlder(Tail(history), offset_id)
    ELSE SelectOlder(Tail(history), offset_id)
GetHistory(history, limit, offset_id) ==
    LET older == SelectOlder(history, offset_id)
    IN  SubSeq(older, 1, Min(limit, Len(older)))

(* ------------------- ChatView: rendering one message -------------------- *)
MediaNotRendered == <<"[", "M", "e", "d", "i", "a", ":", " ", "C", "o", "u", "l", "d", " ", "n", "o", "t", " ", "r", "e", "n", "d", "e", "r", "]", "\n">>
MediaNotDownloaded == <<"[", "M", "e", "d", "i", "a", ":", " ", "C", "o", "u", "l", "d", " ", "n", "o", "t", " ", "d", "o", "w", "n", "l", "o", "a", "d", "]", "\n">>
MediaErrorPrefix == <<"[", "M", "e", "d", "i", "a", ":", " ">>
MediaErrorSuffix == <<"]", "\n">>
ErrorLoadingPrefix == <<"E", "r", "r", "o", "r", " ", "l", "o", "a", "d", "i", "n", "g", " ", "m", "e", "s", "s", "a", "g", "e", "s", ":", " ">>
ErrorSendingPrefix == <<"E", "r", "r", "o", "r", " ", "s", "e", "n", "d", "i", "n", "g", " ", "m", "e", "s", "s", "a", "g", "e", ":", " ">>
\* str(e) of the exceptions of the service
MsgDownload == <<"C", "o", "n", "n", "e", "c", "t", "i", "o", "n", " ", "r", "e", "s", "e", "t", " ", "b", "y", " ", "p", "e", "e", "r">>
MsgRpc == <<"R", "P", "C", " ", "c", "a", "l", "l", " ", "f", "a", "i", "l", "e", "d">>

\* the bytes download_media returns for a message that carries a picture
MediaBytes(m) ==
    CASE m.kind = "media_garbage" -> [tag |-> "garbage", ow |-> 0, oh |-> 0, pat |-> "black"]
      [] m.kind = "media_truncated" -> [tag |-> "truncated", ow |-> 0, oh |-> 0, pat |-> "black"]
      [] m.kind = "media_photo" -> [tag |-> "image", ow |-> 100, oh |-> 50, pat |-> "black"]
      [] m.kind = "media_wide" -> [tag |-> "image", ow |-> 1000, oh |-> 1, pat |-> "steps"]
      [] OTHER -> NoData

\* await client.download_media(message.media, bytes): raises, or returns None
\* or the bytes
DownloadMedia(m) ==
    IF m.kind = "media_raises"
        THEN [exc |-> "ConnectionError", msg |-> MsgDownload, data |-> NoData]
    ELSE [exc |-> "None", msg |-> <<>>, data |-> MediaBytes(m)]

\* what the converter of the chat view returns for the bytes
AsciiArt(w, data) == Returned(TryBody(w, data))

\* variant: the media block without its try statement, so that an exception
\* of the download leaves the loop
RenderMediaNoTry(m, w) ==
    LET got == DownloadMedia(m)
    IN  IF m.kind \notin MediaKinds THEN [exc |-> "None", msg |-> <<>>, text |-> <<>>]
        ELSE IF got.exc # "None" THEN [exc |-> got.exc, msg |-> got.msg, text |-> <<>>]
        ELSE IF got.data = NoData
            THEN [exc |-> "None", msg |-> <<>>, text |-> MediaNotDownloaded]
        ELSE IF AsciiArt(w, got.data) # <<>>
            THEN [exc |-> "None", msg |-> <<>>,
                  text |-> <<"\n">> \o AsciiArt(w, got.data) \o <<"\n">>]
        ELSE [exc |-> "None", msg |-> <<>>, text |-> MediaNotRendered]

\* lines 152-168: the text shown for the media of a message, and the exception
\* that leaves the block ("None": the except clause of the block takes all of
\* class Exception)
RenderMedia(m, w) ==
    LET got == DownloadMedia(m)
    IN  IF m.kind \notin MediaKinds THEN [exc |-> "None", msg |-> <<>>, text |-> <<>>]
        ELSE IF got.exc # "None"
            THEN IF IsSubclass(got.exc, "Exception")
                     THEN [exc |-> "None", msg |-> <<>>,
                           text |-> MediaErrorPrefix \o got.msg \o MediaErrorSuffix]
                 ELSE [exc |-> got.exc, msg |-> got.msg, text |-> <<>>]
        ELSE IF got.data = NoData
            THEN [exc |-> "None", msg |-> <<>>, text |-> MediaNotDownloaded]
        ELSE IF AsciiArt(w, got.data) # <<>>
            THEN [exc |-> "None", msg |-> <<>>,
                  text |-> <<"\n">> \o AsciiArt(w, got.data) \o <<"\n">>]
        ELSE [exc |-> "None", msg |-> <<>>, text |-> MediaNotRendered]

\* lines 126-133: the sender resolves, or the bare except gives "Unknown"
SenderName(m) == IF m.kind = "unknown_sender" THEN "Unknown" ELSE "name"

\* the widgets of the list: a message, the divider after it, an error text
MessageItem(m, media) ==
    [kind |-> "message", msg |-> m, sender |-> SenderName(m),
     text |-> m.kind \in TextKinds, media |-> media, error |-> <<>>]
Divider == [kind |-> "divider", msg |-> NoMessage, sender |-> "",
            text |-> FALSE, media |-> <<>>, error |-> <<>>]
ErrorItem(prefix, msg) ==
    [kind |-> "error", msg |-> NoMessage, sender |-> "",
     text |-> FALSE, media |-> <<>>, error |-> prefix \o msg]

(* --------------------------- ChatView: state --------------------------- *)
\* bound on the tasks a chat view creates
MaxTasks == 3
\* bound on the length of the text typed into the input field
MaxText == 2

\* no chat is open
ClosedChat == [open |-> FALSE, width |-> 0, entity |-> FALSE,
               heap |-> <<>>, messages |-> 0, list_walker |-> <<>>,
               edit_text |-> <<>>, pressed |-> FALSE]

\* ChatView.__init__: the converter is ImageToAscii(), self.messages a new
\* empty list (heap holds the list objects, messages names the one that
\* self.messages is bound to), self.entity None, an empty list walker and an
\* empty input field; pressed turns over with every press of the Send button
NewChat == [open |-> TRUE, width |-> ConverterDefaultWidth, entity |-> FALSE,
            heap |-> <<<<>>>>, messages |-> 1, list_walker |-> <<>>,
            edit_text |-> <<>>, pressed |-> FALSE]

\* a task running _load_messages(offset_id), and one running
\* _send_message(text); iter names the list object the for loop walks, i the
\* position of the loop, items the widgets built so far
LoadTask(offset_id) == [kind |-> "load", pc |-> "start", offset_id |-> offset_id,
                        text |-> <<>>, iter |-> 0, i |-> 0, items |-> <<>>]
SendTask(text) == [kind |-> "send", pc |-> "send", offset_id |-> 0,
                   text |-> text, iter |-> 0, i |-> 0, items |-> <<>>]

\* self.messages
Messages == chat.heap[chat.messages]

(* ------------------- TelegramHandler and MessagePanel ------------------ *)
\* the cap of on_new_message on the messages kept per chat
HistoryCap == 100
\* bound on the new-message events of one chat
MaxEvents == 102
\* bound on the new-message events of one chat while the panel is shown
MaxArrivals == 1
\* bound on the runs of refresh
MaxRefreshes == 3

\* the peer ids of the chats
Chats == {1, 2}

\* TelegramHandler.__init__: self.current_messages = {}
NoMessages == [c \in {} |-> <<>>]

\* the folders (0: folder_id None, every dialog) and the dialogs the service
\* lists for each
Folders == {0, 1, 2}
DialogsOf(f) ==
    CASE f = 1 -> <<"alice">>
      [] f = 2 -> <<"bob">>
      [] OTHER -> <<"alice", "bob">>

\* no MessagePanel has been built: the callbacks of the handler are None
NoPanel == [constructed |-> FALSE, folder_id |-> 0, dialogs |-> <<>>,
            handler_dialogs |-> <<>>, list_walker |-> <<>>]

\* MessagePanel.__init__: no dialogs, folder_id None, an empty list walker
NewPanel == [constructed |-> TRUE, folder_id |-> 0, dialogs |-> <<>>,
             handler_dialogs |-> <<>>, list_walker |-> <<>>]

\* a run of refresh that has not begun: folder is the argument it passes to
\* get_dialogs, list the list its loop walks, i the position of the loop,
\* items the widgets built so far
NewRefresh == [pc |-> "start", folder |-> 0, list |-> <<>>, i |-> 0,
               items |-> <<>>, failed |-> FALSE]

(* ------------------------------ actions -------------------------------- *)
\* no earlier call is remembered
NoEarlier == [set |-> FALSE, data |-> NoData, result |-> <<>>, between |-> FALSE]

\* the call sites that invoke the converter concurrently
Invocations == {"a", "b"}

\* the frame of a call site that is not inside a call
IdleFrame == [pc |-> "idle", data |-> NoData, size |-> <<0, 0>>, h |-> 0,
              pix |-> <<>>, i |-> 0, art |-> <<>>,
              exit |-> "none", result |-> <<>>, raised |-> "None"]

Init ==
    /\ frames = [t \in Invocations |-> IdleFrame]
    /\ earlier = NoEarlier
    /\ width \in Widths
    /\ image_data = NoData
    /\ reached = "none"
    /\ orig_size = <<0, 0>>
    /\ new_height = 0
    /\ pixels = <<>>
    /\ ascii_art = <<>>
    /\ handler = "none"
    /\ result = <<>>
    /\ raised = "None"
    /\ pixel_value = 0
    /\ pixel_index = 0
    /\ pixel_char = ""
    /\ pixel_raised = "None"
    /\ config_file = NoConfigFile
    /\ config = NotLoaded
    /\ server = <<>>
    /\ chat = ClosedChat
    /\ tasks = <<>>
    /\ posted = [c \in Chats |-> 0]
    /\ current_messages = NoMessages
    /\ panel = NoPanel
    /\ refreshes = <<>>

\* ImageToAscii.__init__(self, width): a new converter
Construct(w) ==
    /\ width' = w
    /\ image_data' = NoData
    /\ reached' = "none"
    /\ orig_size' = <<0, 0>>
    /\ new_height' = 0
    /\ pixels' = <<>>
    /\ ascii_art' = <<>>
    /\ handler' = "none"
    /\ result' = <<>>
    /\ raised' = "None"
    /\ UNCHANGED <<pixelVars, convOthers>>

\* variant: the call normalises self.width to at least 1 before using it
ConvertCallClampsWidth(data) ==
    LET w == IF width < 1 THEN 1 ELSE width
        body == TryBody(w, data)
    IN  /\ width' = w
        /\ image_data' = data
        /\ reached' = body.reached
        /\ orig_size' = body.orig_size
        /\ new_height' = body.new_height
        /\ pixels' = body.pixels
        /\ ascii_art' = body.ascii_art
        /\ handler' = Handler(body.exc)
        /\ result' = Returned(body)
        /\ raised' = IF Handler(body.exc) = "propagate" THEN body.exc ELSE "None"
        /\ UNCHANGED pixelVars

\* the effect of convert_image_to_ascii(self, image_data) on the converter
\* and on the record of the call
ConvertCall(data) ==
    LET body == TryBody(width, data)
    IN  /\ image_data' = data
        /\ reached' = body.reached
        /\ orig_size' = body.orig_size
        /\ new_height' = body.new_height
        /\ pixels' = body.pixels
        /\ ascii_art' = body.ascii_art
        /\ handler' = Handler(body.exc)
        /\ result' = Returned(body)
        /\ raised' = IF Handler(body.exc) = "propagate" THEN body.exc ELSE "None"
        /\ UNCHANGED <<width, pixel_value, pixel_index, pixel_char, pixel_raised>>

\* ImageToAscii.convert_image_to_ascii(self, image_data)
ConvertImageToAscii(data) ==
    /\ ConvertCall(data)
    /\ UNCHANGED convOthers

\* ImageToAscii._pixel_to_ascii(self, pixel_value), called on its own
PixelToAsciiCall(v) ==
    /\ pixel_value' = v
    /\ pixel_index' = PixelIndex(v)
    /\ pixel_char' = IF IndexInRange(PixelIndex(v)) THEN PixelToAscii(v) ELSE ""
    /\ pixel_raised' = IF IndexInRange(PixelIndex(v)) THEN "None" ELSE "IndexError"
    /\ UNCHANGED <<width, callVars, convOthers>>

Next ==
    \/ \E w \in Widths : Construct(w)
    \/ \E data \in Buffers : ConvertImageToAscii(data)

Spec == Init /\ [][Next]_vars

\* the quantisation on its own, over every luminance of a mode 'L' picture
Lums == 0..MaxLum
NextPixel == \E v \in Lums : PixelToAsciiCall(v)
SpecPixel == Init /\ [][NextPixel]_vars

(* ------------------- repeated calls on one converter -------------------- *)
\* the buffers of the repeated calls: every failure path and a few pictures
RepeatSizes == {<<1, 1>>, <<1, 2>>, <<2, 2>>, <<2, 1>>, <<100, 50>>}
RepeatBuffers ==
    {b \in Buffers : b.tag # "image"
                     \/ (<<b.ow, b.oh>> \in RepeatSizes /\ b.pat \in {"black", "steps"})}

\* convert_image_to_ascii(data) on the same converter; the observer either
\* remembers this call (remember) or notes that it came after the remembered one
RepeatedConvert(data, remember) ==
    /\ ConvertCall(data)
    /\ UNCHANGED <<frames, appVars, panelVars>>
    /\ earlier' = IF remember
                      THEN [set |-> TRUE, data |-> data, result |-> result',
                            between |-> FALSE]
                  ELSE IF earlier.set /\ data # earlier.data
                      THEN [earlier EXCEPT !.between = TRUE]
                  ELSE earlier

NextRepeat == \E data \in RepeatBuffers, remember \in BOOLEAN : RepeatedConvert(data, remember)
SpecRepeat == Init /\ [][NextRepeat]_vars

(* ------------- concurrent invocations, statement by statement ----------- *)
\* the buffers of the concurrent invocations
ConcSizes == {<<0, 1>>, <<1, 1>>, <<1, 2>>, <<2, 2>>}
ConcBuffers ==
    {b \in Buffers : b.tag # "image"
                     \/ (<<b.ow, b.oh>> \in ConcSizes /\ b.pat \in {"checker", "steps"})}

\* what the statements of an invocation leave alone: the converter itself (they
\* only read self.width) and everything outside the invocations
concOthers == <<width, callVars, pixelVars, earlier, appVars, panelVars>>

\* the frame after an exception of class exc left the try body: the matching
\* except clause returns its placeholder
Caught(f, exc, msg) ==
    [f EXCEPT !.pc = "done",
              !.exit = Handler(exc),
              !.result = Returned([NoLocals EXCEPT !.exc = exc, !.msg = msg]),
              !.raised = IF Handler(exc) = "propagate" THEN exc ELSE "None"]

\* a call site enters convert_image_to_ascii(data)
Enter(t, data) ==
    /\ frames[t].pc = "idle"
    /\ frames' = [frames EXCEPT ![t] = [IdleFrame EXCEPT !.pc = "open", !.data = data]]
    /\ UNCHANGED concOthers

\* line 33: image = Image.open(io.BytesIO(image_data))
StepOpen(t) ==
    LET f == frames[t]
        opened == ImageOpen(f.data)
    IN  /\ f.pc = "open"
        /\ frames' = [frames EXCEPT ![t] =
                        IF opened.exc # "None" THEN Caught(f, opened.exc, opened.msg)
                        ELSE [f EXCEPT !.pc = "convert"]]
        /\ UNCHANGED concOthers

\* line 36: image = image.convert('L')
StepConvert(t) ==
    LET f == frames[t]
        loaded == ImageConvertL(f.data)
    IN  /\ f.pc = "convert"
        /\ frames' = [frames EXCEPT ![t] =
                        IF loaded.exc # "None" THEN Caught(f, loaded.exc, loaded.msg)
                        ELSE [f EXCEPT !.pc = "size"]]
        /\ UNCHANGED concOthers

\* lines 39-40: orig_width, orig_height = image.size; aspect_ratio = ...
StepSize(t) ==
    LET f == frames[t]
    IN  /\ f.pc = "size"
        /\ frames' = [frames EXCEPT ![t] =
                        IF f.data.ow = 0
                            THEN Caught(f, "ZeroDivisionError", MsgDivisionByZero)
                        ELSE [f EXCEPT !.pc = "height",
                                       !.size = <<f.data.ow, f.data.oh>>]]
        /\ UNCHANGED concOthers

\* variant: new_height is kept on the converter, so the assignment reaches the
\* other invocations too
StepHeightOnSelf(t) ==
    LET f == frames[t]
        newh == NewHeight(width, f.size[1], f.size[2])
    IN  /\ f.pc = "height"
        /\ frames' = [u \in Invocations |->
                        IF u = t THEN [f EXCEPT !.pc = "resize", !.h = newh]
                        ELSE [frames[u] EXCEPT !.h = newh]]
        /\ UNCHANGED concOthers

\* line 41: new_height = int(self.width * aspect_ratio * 0.5)
StepHeight(t) ==
    LET f == frames[t]
    IN  /\ f.pc = "height"
        /\ frames' = [frames EXCEPT ![t] =
                        [f EXCEPT !.pc = "resize",
                                  !.h = NewHeight(width, f.size[1], f.size[2])]]
        /\ UNCHANGED concOthers

\* lines 42-46: image = image.resize((self.width, new_height));
\* pixels = list(image.getdata()); ascii_art = []
StepResize(t) ==
    LET f == frames[t]
    IN  /\ f.pc = "resize"
        /\ frames' = [frames EXCEPT ![t] =
                        IF ResizeRaises(width, f.h)
                            THEN Caught(f, "ValueError", MsgResize)
                        ELSE [f EXCEPT !.pc = "loop",
                                       !.pix = ImageResize(f.data, width, f.h),
                                       !.i = 0, !.art = <<>>]]
        /\ UNCHANGED concOthers

\* lines 47-50: one iteration of the loop over the rows
StepRow(t) ==
    LET f == frames[t]
        row == SubSeq(f.pix, f.i + 1, Min(f.i + width, Len(f.pix)))
    IN  /\ f.pc = "loop"
        /\ f.i < Len(f.pix)
        /\ frames' = [frames EXCEPT ![t] =
                        IF \E j \in 1..Len(row) : ~IndexInRange(PixelIndex(row[j]))
                            THEN Caught(f, "IndexError", MsgIndex)
                        ELSE [f EXCEPT !.i = f.i + width,
                                       !.art = Append(f.art, AsciiRow(row))]]
        /\ UNCHANGED concOthers

\* line 52: return '\n'.join(ascii_art), once the loop is exhausted
StepReturn(t) ==
    LET f == frames[t]
    IN  /\ f.pc = "loop"
        /\ f.i >= Len(f.pix)
        /\ frames' = [frames EXCEPT ![t] =
                        [f EXCEPT !.pc = "done", !.exit = "return",
                                  !.result = Join(f.art)]]
        /\ UNCHANGED concOthers

NextConc ==
    \E t \in Invocations :
        \/ \E data \in ConcBuffers : Enter(t, data)
        \/ StepOpen(t)
        \/ StepConvert(t)
        \/ StepSize(t)
        \/ StepHeight(t)
        \/ StepResize(t)
        \/ StepRow(t)
        \/ StepReturn(t)

SpecConc == Init /\ [][NextConc]_vars

(* ------------------------ configuration and chat ----------------------- *)
\* what the actions of the application leave alone
appOthers == <<width, callVars, pixelVars, earlier, frames, panelVars>>

\* Config.__init__ at the start of the application, finding file on disk;
\* without a file the defaults are saved
ConfigInit(file) ==
    /\ ~config.loaded
    /\ config' = [loaded |-> TRUE, ascii_art_width |-> LoadConfig(file)]
    /\ config_file' = IF file.exists THEN file
                      ELSE [exists |-> TRUE, ascii_art_width |-> {DefaultAsciiArtWidth}]
    /\ UNCHANGED <<server, chat, tasks, appOthers>>

\* the id the service gives to the next message of the chat
NextId == IF server = <<>> THEN 1 ELSE Head(server).id + 1

\* somebody posts a message of the given kind to the chat
Arrive(kind, cap) ==
    /\ Len(server) < cap
    /\ server' = <<[id |-> NextId, kind |-> kind]>> \o server
    /\ UNCHANGED <<config_file, config, chat, tasks, appOthers>>

\* MainView.open_chat -> ChatView.__init__, which schedules _load_messages()
OpenChat ==
    /\ config.loaded
    /\ ~chat.open
    /\ chat' = NewChat
    /\ tasks' = <<LoadTask(0)>>
    /\ UNCHANGED <<config_file, config, server, appOthers>>

\* the characters typed into the input field
Alphabet == {" ", "\t", "a"}
Whitespace == {" ", "\t", "\n"}

\* a key press in the input field
TypeText(c) ==
    /\ chat.open
    /\ Len(chat.edit_text) < MaxText
    /\ chat' = [chat EXCEPT !.edit_text = Append(@, c)]
    /\ UNCHANGED <<config_file, config, server, tasks, appOthers>>

\* str.strip()
RECURSIVE LStrip(_)
LStrip(text) ==
    IF text # <<>> /\ Head(text) \in Whitespace THEN LStrip(Tail(text)) ELSE text
RECURSIVE RStrip(_)
RStrip(text) ==
    IF text # <<>> /\ text[Len(text)] \in Whitespace
        THEN RStrip(SubSeq(text, 1, Len(text) - 1))
    ELSE text
Strip(text) == RStrip(LStrip(text))

\* variant: _on_send without the test of the stripped text
OnSendUnchecked ==
    /\ chat.open
    /\ Len(tasks) < MaxTasks
    /\ chat' = [chat EXCEPT !.edit_text = <<>>, !.pressed = ~@]
    /\ tasks' = Append(tasks, SendTask(chat.edit_text))
    /\ UNCHANGED <<config_file, config, server, appOthers>>

\* ChatView._on_send: nothing for a text that strips to nothing; otherwise the
\* field is cleared and _send_message(text) is scheduled
OnSend ==
    /\ chat.open
    /\ Len(tasks) < MaxTasks
    /\ IF Strip(chat.edit_text) = <<>>
           THEN /\ chat' = [chat EXCEPT !.pressed = ~@]
                /\ UNCHANGED tasks
       ELSE /\ chat' = [chat EXCEPT !.edit_text = <<>>, !.pressed = ~@]
            /\ tasks' = Append(tasks, SendTask(chat.edit_text))
    /\ UNCHANGED <<config_file, config, server, appOthers>>

\* min(m.id for m in self.messages)
RECURSIVE MinId(_)
MinId(list) ==
    IF Len(list) = 1 THEN Head(list).id
    ELSE Min(Head(list).id, MinId(Tail(list)))

\* ChatView._on_load_more: with messages loaded, _load_messages(oldest_id) is
\* scheduled
OnLoadMore ==
    /\ chat.open
    /\ Len(tasks) < MaxTasks
    /\ IF Messages # <<>>
           THEN tasks' = Append(tasks, LoadTask(MinId(Messages)))
       ELSE UNCHANGED tasks
    /\ UNCHANGED <<config_file, config, server, chat, appOthers>>

\* the except clause of _load_messages or of _send_message: the list shows
\* the error text alone, and the task ends (its locals are gone)
Fail(t, prefix, msg) ==
    /\ chat' = [chat EXCEPT !.list_walker = <<ErrorItem(prefix, msg)>>]
    /\ tasks' = [tasks EXCEPT ![t].pc = "done", ![t].iter = 0, ![t].i = 0,
                              ![t].items = <<>>, ![t].text = <<>>]

\* _send_message up to the answer of the service: the message is posted and
\* the task goes on into _load_messages(), or the call raises
StepSend(t, ok) ==
    /\ t \in DOMAIN tasks
    /\ tasks[t].pc = "send"
    /\ IF ok
           THEN /\ server' = <<[id |-> NextId, kind |-> "text"]>> \o server
                /\ tasks' = [tasks EXCEPT ![t].pc = "start", ![t].text = <<>>]
                /\ UNCHANGED chat
       ELSE /\ Fail(t, ErrorSendingPrefix, MsgRpc)
            /\ UNCHANGED server
    /\ UNCHANGED <<config_file, config, appOthers>>

\* _load_messages, line 100: the entity is fetched when self.entity is unset
StepStart(t) ==
    /\ t \in DOMAIN tasks
    /\ tasks[t].pc = "start"
    /\ tasks' = [tasks EXCEPT ![t].pc = IF chat.entity THEN "fetch" ELSE "entity"]
    /\ UNCHANGED <<config_file, config, server, chat, appOthers>>

\* lines 101-108: get_entity answers, or raises
StepEntity(t, ok) ==
    /\ t \in DOMAIN tasks
    /\ tasks[t].pc = "entity"
    /\ IF ok
           THEN /\ chat' = [chat EXCEPT !.entity = TRUE]
                /\ tasks' = [tasks EXCEPT ![t].pc = "fetch"]
       ELSE Fail(t, ErrorLoadingPrefix, MsgRpc)
    /\ UNCHANGED <<config_file, config, server, appOthers>>

\* line 180: self.list_walker[:] = items (set_focus(0) of line 184 changes no
\* list)
Finish(c, t, items) ==
    /\ chat' = [c EXCEPT !.list_walker = items]
    /\ tasks' = [tasks EXCEPT ![t].pc = "done", ![t].iter = 0, ![t].i = 0,
                              ![t].items = <<>>, ![t].text = <<>>]

\* lines 118-121: a load with an offset extends the list self.messages is
\* bound to, a load without binds self.messages to the page
Store(c, offset_id, page) ==
    IF offset_id > 0
        THEN [c EXCEPT !.heap[c.messages] = @ \o page]
    ELSE [c EXCEPT !.heap = Append(@, page), !.messages = Len(c.heap) + 1]

\* lines 111-121: the page of history arrives; a load with an offset extends
\* the list self.messages is bound to, a load without binds self.messages to
\* the page. The loop begins on that list, or ends at once when it is empty
StepFetch(t, ok) ==
    /\ t \in DOMAIN tasks
    /\ tasks[t].pc = "fetch"
    /\ IF ok
           THEN LET page == GetHistory(server, PageLimit, tasks[t].offset_id)
                    c == Store(chat, tasks[t].offset_id, page)
                IN  IF c.heap[c.messages] = <<>>
                        THEN Finish(c, t, <<>>)
                    ELSE /\ chat' = c
                         /\ tasks' = [tasks EXCEPT ![t].pc = "render",
                                                   ![t].iter = c.messages,
                                                   ![t].i = 1]
       ELSE Fail(t, ErrorLoadingPrefix, MsgRpc)
    /\ UNCHANGED <<config_file, config, server, appOthers>>

\* lines 125-177, one turn of the loop from its awaits on: the sender and the
\* media of message i arrive and its widgets are built; the loop goes on to
\* the next message of the list as it is now, or ends
StepRender(t) ==
    /\ t \in DOMAIN tasks
    /\ tasks[t].pc = "render"
    /\ LET list == chat.heap[tasks[t].iter]
           m == list[tasks[t].i]
           media == RenderMedia(m, chat.width)
           items == tasks[t].items \o <<MessageItem(m, media.text), Divider>>
       IN  IF media.exc # "None"
               THEN Fail(t, ErrorLoadingPrefix, media.msg)
           ELSE IF tasks[t].i < Len(list)
               THEN /\ tasks' = [tasks EXCEPT ![t].i = @ + 1, ![t].items = items]
                    /\ UNCHANGED chat
           ELSE Finish(chat, t, items)
    /\ UNCHANGED <<config_file, config, server, appOthers>>

\* the steps of the tasks inside _load_messages
LoadStep ==
    \E t \in 1..MaxTasks :
        \/ StepStart(t)
        \/ \E ok \in BOOLEAN : StepEntity(t, ok)
        \/ \E ok \in BOOLEAN : StepFetch(t, ok)
        \/ StepRender(t)

\* the application before it starts; the converter of the other
\* specifications, which the application does not use, is one of width 1
InitApp == Init /\ width = 1

\* a chat with media is opened and loads
NextRender ==
    \/ \E file \in ConfigFiles : ConfigInit(file)
    \/ \E kind \in MessageKinds : Arrive(kind, MaxHistory)
    \/ OpenChat
    \/ LoadStep
SpecRender == InitApp /\ [][NextRender]_vars

\* a chat of text messages is opened, paged through and written to
NextLoad ==
    \/ ConfigInit(NoConfigFile)
    \/ Arrive("text", 2 * PageLimit)
    \/ OpenChat
    \/ TypeText("a")
    \/ OnSend
    \/ OnLoadMore
    \/ \E t \in 1..MaxTasks, ok \in BOOLEAN : StepSend(t, ok)
    \/ LoadStep
SpecLoad == InitApp /\ [][NextLoad]_vars

\* texts are typed into the input field of a chat and sent, up to the answer
\* of the service to each send
NextSend ==
    \/ ConfigInit(NoConfigFile)
    \/ OpenChat
    \/ \E c \in Alphabet : TypeText(c)
    \/ OnSend
    \/ \E t \in 1..MaxTasks, ok \in BOOLEAN : StepSend(t, ok)
SpecSend == InitApp /\ [][NextSend]_vars

(* ------------------- the handler and the dialog panel ------------------ *)
\* what the actions of the handler and the panel leave alone
panelOthers == <<width, callVars, pixelVars, earlier, frames, appVars>>

\* variant: the cap drops the newest message
TruncateNewest(list) ==
    IF Len(list) > HistoryCap THEN SubSeq(list, 2, Len(list)) ELSE list

\* lines 152-153: list[:100] of a list longer than 100
Truncate(list) ==
    IF Len(list) > HistoryCap THEN SubSeq(list, 1, HistoryCap) ELSE list

\* lines 144-153: the list of the chat with the message inserted at index 0
Stored(c, message) ==
    LET old == IF c \in DOMAIN current_messages THEN current_messages[c] ELSE <<>>
    IN  Truncate(<<message>> \o old)

\* TelegramHandler.on_new_message for a message of chat c: the message is
\* stored; with a panel built, new_message_callback schedules a refresh and
\* dialog_update_callback begins another inside the handler
OnNewMessage(c, cap) ==
    /\ posted[c] < cap
    /\ posted' = [posted EXCEPT ![c] = @ + 1]
    /\ current_messages' =
           [x \in DOMAIN current_messages \cup {c} |->
               IF x = c THEN Stored(c, [chat |-> c, id |-> posted[c] + 1])
               ELSE current_messages[x]]
    /\ IF panel.constructed
           THEN /\ Len(refreshes) + 2 <= MaxRefreshes
                /\ refreshes' = refreshes \o <<NewRefresh, NewRefresh>>
       ELSE UNCHANGED refreshes
    /\ UNCHANGED <<panel, panelOthers>>

\* MessagePanel.__init__: the callbacks are set and a refresh is scheduled
ConstructPanel ==
    /\ ~panel.constructed
    /\ panel' = NewPanel
    /\ refreshes' = Append(refreshes, NewRefresh)
    /\ UNCHANGED <<posted, current_messages, panelOthers>>

\* MainView.open_folder -> MessagePanel.set_folder(f)
SetFolder(f) ==
    /\ panel.constructed
    /\ Len(refreshes) < MaxRefreshes
    /\ panel' = [panel EXCEPT !.folder_id = f]
    /\ refreshes' = Append(refreshes, NewRefresh)
    /\ UNCHANGED <<posted, current_messages, panelOthers>>

\* refresh begins: get_dialogs(self.folder_id) is called with the folder
\* selected now
RefreshStart(r) ==
    /\ r \in DOMAIN refreshes
    /\ refreshes[r].pc = "start"
    /\ refreshes' = [refreshes EXCEPT ![r].pc = "dialogs", ![r].folder = panel.folder_id]
    /\ UNCHANGED <<posted, current_messages, panel, panelOthers>>

\* the end of a run of refresh
RefreshEnd(r, failed) ==
    [refreshes EXCEPT ![r] = [NewRefresh EXCEPT !.pc = "done", !.failed = failed]]

\* get_dialogs answers: TelegramHandler.dialogs and MessagePanel.dialogs are
\* the dialogs of the folder asked for, and the loop begins (every folder
\* lists a dialog); or the request raises, which ends the run
RefreshDialogs(r, ok) ==
    /\ r \in DOMAIN refreshes
    /\ refreshes[r].pc = "dialogs"
    /\ IF ok
           THEN LET answer == DialogsOf(refreshes[r].folder)
                IN  /\ panel' = [panel EXCEPT !.handler_dialogs = answer, !.dialogs = answer]
                    /\ refreshes' = [refreshes EXCEPT ![r].pc = "items", ![r].list = answer,
                                                      ![r].i = 1]
       ELSE /\ refreshes' = RefreshEnd(r, TRUE)
            /\ UNCHANGED panel
    /\ UNCHANGED <<posted, current_messages, panelOthers>>

\* one turn of the loop from its await on: the entity of dialog i arrives and
\* its item is built, or get_entity raises and the dialog is skipped; after
\* the last dialog the list walker takes the items
RefreshItem(r, ok) ==
    /\ r \in DOMAIN refreshes
    /\ refreshes[r].pc = "items"
    /\ LET items == IF ok THEN Append(refreshes[r].items, refreshes[r].list[refreshes[r].i])
                    ELSE refreshes[r].items
       IN  IF refreshes[r].i < Len(refreshes[r].list)
               THEN /\ refreshes' = [refreshes EXCEPT ![r].i = @ + 1, ![r].items = items]
                    /\ UNCHANGED panel
           ELSE /\ refreshes' = RefreshEnd(r, FALSE)
                /\ panel' = [panel EXCEPT !.list_walker = items]
    /\ UNCHANGED <<posted, current_messages, panelOthers>>

\* new-message events reach a handler that has no panel
NextHandler == \E c \in Chats : OnNewMessage(c, MaxEvents)
SpecHandler == InitApp /\ [][NextHandler]_vars

\* the dialog panel is shown, folders are selected and messages arrive
NextPanel ==
    \/ ConstructPanel
    \/ \E f \in Folders : SetFolder(f)
    \/ \E c \in Chats : OnNewMessage(c, MaxArrivals)
    \/ \E r \in 1..MaxRefreshes :
           \/ RefreshStart(r)
           \/ \E ok \in BOOLEAN : RefreshDialogs(r, ok)
           \/ \E ok \in BOOLEAN : RefreshItem(r, ok)
SpecPanel == InitApp /\ [][NextPanel]_vars

(* ------------------------------ properties ----------------------------- *)
\* sub occurs in text
Contains(text, sub) ==
    \E i \in 1..(Len(text) - Len(sub) + 1) : SubSeq(text, i, i + Len(sub) - 1) = sub

\* text.split('\n')
RECURSIVE Lines(_)
Lines(text) ==
    IF \A i \in 1..Len(text) : text[i] # "\n" THEN <<text>>
    ELSE LET i == CHOOSE j \in 1..Len(text) :
                      text[j] = "\n" /\ \A k \in 1..(j - 1) : text[k] # "\n"
         IN  <<SubSeq(text, 1, i - 1)>> \o Lines(SubSeq(text, i + 1, Len(text)))

TextFormat == <<"f", "o", "r", "m", "a", "t">>
TextError == <<"E", "r", "r", "o", "r">>
RampChars == {ASCII_CHARS[i] : i \in 1..Len(ASCII_CHARS)}

\* a convert_image_to_ascii call has been made on the converter
Called == handler # "none"
\* the call did not reach its return statement at line 52
Failed == Called /\ reached # "return"
\* the argument decodes to a picture with non-zero sides
ValidImage == image_data.tag = "image" /\ image_data.ow >= 1 /\ image_data.oh >= 1
\* the decoder does not recognise the argument as a picture
Unrecognised == image_data.tag \in {"empty", "garbage"}
\* the call got as far as computing new_height
HeightComputed == reached \in {"resize", "rows", "return"}
\* a direct _pixel_to_ascii call has been made
PixelCalled == pixel_char # "" \/ pixel_raised # "None"

C2_EveryLineFullWidth ==
    (Called /\ ValidImage /\ width >= 1) =>
        \A k \in 1..Len(Lines(result)) : Len(Lines(result)[k]) = width

\* C3: for a validly decodable picture with non-zero sides and a width >= 1,
\* the target height is clamped to at least 1 and the returned string is
\* never empty.
C3_HeightClamped ==
    (Called /\ ValidImage /\ width >= 1) =>
        /\ HeightComputed
        /\ new_height >= 1
        /\ Len(result) > 0

\* C4: for a validly decodable picture (and a width >= 1, as the contract of
\* the renderer requires), every character of the returned text other than
\* the newline separators belongs to the glyph ramp.
C4_OnlyRampChars ==
    (Called /\ ValidImage /\ width >= 1) =>
        \A i \in 1..Len(result) : result[i] = "\n" \/ result[i] \in RampChars

\* C5 (as claimed): the target height equals
\* round(width * (orig_height / orig_width) * 0.5).
C5_HeightIsRounded ==
    HeightComputed =>
        new_height = Round(width * orig_size[2], 2 * orig_size[1])

\* C5 (amended): the target height is width * (orig_height / orig_width) * 0.5
\* truncated toward zero: the integer n of the same sign with
\* |n| <= |quotient| < |n| + 1.
C5_HeightIsTruncated ==
    HeightComputed =>
        LET n == width * orig_size[2]
            d == 2 * orig_size[1]
        IN  IF n >= 0
                THEN d * new_height <= n /\ n < d * (new_height + 1)
                ELSE d * (new_height - 1) < n /\ n <= d * new_height

C5_Witness ==
    /\ reached = "return"
    /\ width >= 1
    /\ 2 * (width * orig_size[2] - 2 * orig_size[1] * new_height) > 2 * orig_size[1]
    /\ Len(ascii_art) = new_height

\* C6: for every luminance v in 0..255, _pixel_to_ascii picks the glyph at
\* index floor(v * (L - 1) / 255) of the ramp of length L, and the index lies
\* in [0, L-1], so the lookup never leaves the ramp.
C6_IndexInRamp ==
    PixelCalled =>
        /\ pixel_raised = "None"
        /\ pixel_index >= 0 /\ pixel_index <= Len(ASCII_CHARS) - 1
        /\ MaxLum * pixel_index <= pixel_value * (Len(ASCII_CHARS) - 1)
        /\ pixel_value * (Len(ASCII_CHARS) - 1) < MaxLum * (pixel_index + 1)
        /\ pixel_char = ASCII_CHARS[pixel_index + 1]

C6_Witness ==
    /\ PixelCalled
    /\ pixel_value = 29
    /\ pixel_index = 1
    /\ pixel_char = "%"

\* C7: luminance 0 maps to the first ramp character '@' and luminance 255 to
\* the last one ' '.
C7_Extremes ==
    PixelCalled =>
        /\ pixel_value = 0 => pixel_char = "@"
        /\ pixel_value = MaxLum => pixel_char = " "

C7_Witness ==
    /\ PixelCalled
    /\ pixel_value = MaxLum
    /\ pixel_char = " "

\* str(e) of the failure the argument leads to when it is not unrecognised
Diagnostic ==
    CASE image_data.tag = "bomb" -> MsgBomb
      [] image_data.tag = "truncated" -> MsgTruncated
      [] image_data.tag = "image" /\ image_data.ow = 0 -> MsgDivisionByZero
      [] OTHER -> MsgResize

C9_RowsCoverGrid ==
    (Called /\ reached = "return") =>
        /\ Len(ascii_art) = new_height
        /\ Len(pixels) = width * new_height
        /\ Len(ascii_art) * width = Len(pixels)
        /\ \A k \in 1..Len(ascii_art) :
              /\ Len(ascii_art[k]) = width
              /\ \A j \in 1..width :
                    ascii_art[k][j] = PixelToAscii(pixels[(k - 1) * width + j])

C9_Witness ==
    /\ Called
    /\ reached = "return"
    /\ width >= 2
    /\ new_height >= 2
    /\ image_data.pat = "steps"

C12_NoSideEffects ==
    [][handler' # "none" =>
          /\ width' = width
          /\ image_data' \in Buffers
          /\ UNCHANGED <<pixelVars, convOthers>>]_vars

C12_Witness ==
    /\ Called
    /\ handler = "Exception"
    /\ reached = "resize"
    /\ width = 0

\* C13: the renderer is re-entrant: in every interleaving of the statements
\* of concurrent invocations on one converter, each invocation returns what
\* the same call returns when it runs alone.
C13_Reentrant ==
    \A t \in Invocations :
        frames[t].pc = "done" =>
            /\ frames[t].raised = "None"
            /\ frames[t].result = Returned(TryBody(width, frames[t].data))

C13_Witness ==
    /\ frames["a"].pc = "done"
    /\ frames["a"].exit = "return"
    /\ Len(frames["a"].art) >= 2
    /\ frames["b"].pc = "loop"
    /\ frames["b"].i > 0
    /\ frames["b"].data # frames["a"].data

\* C14 (as stated): the converter of the chat view renders at the configured
\* ascii_art_width, 40 when the configuration does not set it
C14_ConfiguredWidth == chat.open => chat.width = AsciiArtWidth(config)

\* a picture arrived for the message
HasBytes(m) == m.kind \in MediaKinds /\ DownloadMedia(m).exc = "None" /\ MediaBytes(m) # NoData

\* the first load of the chat view has ended
FirstLoadDone == tasks # <<>> /\ tasks[1].pc = "done"

\* C15: when _load_messages has ended, the list holds for every loaded
\* message, in order, its entry and a separator; the entry of a message with
\* media carries text, the text of the converter unchanged between two line
\* breaks when the bytes arrived, and a "[Media: ...]" text when they did not
C15_EveryMessageRendered ==
    FirstLoadDone =>
        /\ Messages # <<>> => Len(chat.list_walker) = 2 * Len(Messages)
        /\ \A k \in 1..Len(Messages) :
               LET m == Messages[k]
                   entry == chat.list_walker[2 * k - 1]
               IN  /\ entry.kind = "message"
                   /\ entry.msg = m
                   /\ chat.list_walker[2 * k].kind = "divider"
                   /\ m.kind \in MediaKinds => entry.media # <<>>
                   /\ HasBytes(m) =>
                          entry.media = <<"\n">> \o Returned(TryBody(chat.width, MediaBytes(m))) \o <<"\n">>
                   /\ (m.kind \in MediaKinds /\ ~HasBytes(m)) =>
                          /\ Len(entry.media) > Len(MediaErrorPrefix)
                          /\ SubSeq(entry.media, 1, Len(MediaErrorPrefix)) = MediaErrorPrefix

\* a load has ended on a chat whose two messages are one whose download
\* raised and one whose picture the converter could not render
C15_Witness ==
    /\ FirstLoadDone
    /\ Len(Messages) = 2
    /\ Len(chat.list_walker) = 4
    /\ \E k \in 1..2 : Messages[k].kind = "media_raises"
    /\ \E k \in 1..2 : Messages[k].kind = "media_wide"
         /\ SubSeq(chat.list_walker[2 * k - 1].media, 2, Len(ErrorPrefix) + 1) = ErrorPrefix

\* C18 (as stated): self.messages holds each message id at most once
C18_NoDuplicateIds ==
    chat.open =>
        \A j, k \in 1..Len(Messages) : Messages[j].id = Messages[k].id => j = k

\* every character of the text is whitespace
Blank(text) == \A k \in 1..Len(text) : text[k] \in Whitespace

\* this step starts one send of the text that was in the input field
StartsSend ==
    /\ Len(tasks') = Len(tasks) + 1
    /\ SubSeq(tasks', 1, Len(tasks)) = tasks
    /\ tasks'[Len(tasks')].kind = "send"
    /\ tasks'[Len(tasks')].pc = "send"
    /\ tasks'[Len(tasks')].text = chat.edit_text

\* C19: a press of Send on an empty or whitespace-only text starts no task
\* and leaves the input field as it is; a press on any other text starts
\* exactly one send of that text and clears the field; and no send starts
\* without a press
C19_SendsOnlyText ==
    [][/\ (chat.open /\ chat'.pressed # chat.pressed) =>
              IF Blank(chat.edit_text)
                  THEN tasks' = tasks /\ chat'.edit_text = chat.edit_text
              ELSE StartsSend /\ chat'.edit_text = <<>>
       /\ (chat.open /\ Len(tasks') > Len(tasks) /\ tasks'[Len(tasks')].kind = "send") =>
              chat'.pressed # chat.pressed]_vars

\* Send has been pressed on a whitespace-only text of two characters while a
\* send of an earlier text is under way
C19_Witness ==
    /\ chat.open
    /\ chat.pressed
    /\ Len(chat.edit_text) = 2
    /\ Blank(chat.edit_text)
    /\ \E t \in DOMAIN tasks : tasks[t].kind = "send" /\ tasks[t].pc = "send"
                               /\ ~Blank(tasks[t].text)

\* C16: every list of current_messages holds at most 100 messages, the
\* newest first: entry k is the k-th latest message of that chat and of no
\* other, so that beyond the cap the oldest are the ones dropped
C16_NewestHundred ==
    \A c \in DOMAIN current_messages :
        /\ Len(current_messages[c]) <= HistoryCap
        /\ Len(current_messages[c]) = Min(posted[c], HistoryCap)
        /\ \A k \in 1..Len(current_messages[c]) :
               current_messages[c][k] = [chat |-> c, id |-> posted[c] - k + 1]

\* one chat has had two events more than the cap and holds 100 messages
\* while another holds fewer
C16_Witness ==
    /\ DOMAIN current_messages = Chats
    /\ \E c, d \in Chats :
           /\ posted[c] = HistoryCap + 2
           /\ Len(current_messages[c]) = HistoryCap
           /\ current_messages[c][1].id = HistoryCap + 2
           /\ Len(current_messages[d]) = 3

\* s is t with some entries left out
RECURSIVE IsSubSeq(_, _)
IsSubSeq(s, t) ==
    IF s = <<>> THEN TRUE
    ELSE IF t = <<>> THEN FALSE
    ELSE IF Head(s) = Head(t) THEN IsSubSeq(Tail(s), Tail(t))
    ELSE IsSubSeq(s, Tail(t))

\* every run of refresh that was started has ended, none by an exception
AllRefreshed ==
    /\ panel.constructed
    /\ \A r \in DOMAIN refreshes : refreshes[r].pc = "done" /\ ~refreshes[r].failed

\* C17 (as stated): when every refresh has completed, the list shows dialogs
\* of the folder selected last and of no other
C17_LastSelectionWins ==
    AllRefreshed => IsSubSeq(panel.list_walker, DialogsOf(panel.folder_id))

Black100x50 == [tag |-> "image", ow |-> 100, oh |-> 50, pat |-> "black"]
TenAts == <<"@", "@", "@", "@", "@", "@", "@", "@", "@", "@">>

\* C10 (as claimed): a 100x50 solid black picture at width 10 gives exactly
\* one line of ten '@'.
C10_OneLine ==
    (Called /\ image_data = Black100x50 /\ width = 10) => result = TenAts

\* C10 (amended): a 100x50 solid black picture at width 10 gives exactly two
\* lines, each of ten '@'.
C10_TwoLines ==
    (Called /\ image_data = Black100x50 /\ width = 10) =>
        /\ result = TenAts \o <<"\n">> \o TenAts
        /\ Len(Lines(result)) = 2

C10_Witness ==
    /\ Called
    /\ image_data = Black100x50
    /\ width = 10
    /\ reached = "return"
    /\ new_height = 2

====
